---- MODULE Spec2Model ----
(***************************************************************************)
(* Model of the rate-controlled probe engine of minio-ratelimit:           *)
(*   bin/tests/test/test_advanced_rate_limiting.py  (test_request,         *)
(*       run_sustained_test)                                               *)
(*   bin/tests/test_rate_limit.py  (run_load_test, analyze_results)        *)
(*                                                                         *)
(* Time is a discrete clock `now`; one second is TicksPerSec ticks.  The   *)
(* main thread of a run walks through the window loop (pc), the executor's *)
(* worker threads begin and finish the submitted requests in any           *)
(* interleaving, and the endpoint answers each request with any status or  *)
(* with a transport failure.                                               *)
(***************************************************************************)
EXTENDS Integers, Sequences, FiniteSets, TLC

(* ---------------------------- bounds ----------------------------------- *)
MaxRate == 2
MaxDuration == 2
MaxRequests == 2
TicksPerSec == 2
MaxWorkers == 2
MaxResults == 2
MaxClients == 2
MaxLoops == 2
MaxPairRequests == 2
MaxEvents == 2
MaxIngestions == 2

(* ------------------------- value domains ------------------------------- *)
Rates == -1 .. MaxRate
Durations == 0 .. MaxDuration
EmptyDict == [k \in {} |-> ""]

\* what the endpoint may answer: a status with its rate-limit headers
Responses ==
    {[status |-> 200, headers |-> EmptyDict],
     [status |-> 429, headers |-> EmptyDict],
     [status |-> 500, headers |-> EmptyDict]}

VARIABLES
    rate, duration, max_workers,  \* arguments of the run, pool size
    api_key, auth_method,         \* tenant identity and scheme of the run
    now,                          \* time.time()
    pc,                           \* position of the run's main thread
    start_time, batch_start,      \* locals of the run
    futures, ci,                  \* this window's futures, collect index
    wake_at,                      \* end of the pacing sleep
    results,                      \* the run's results list
    summary,                      \* {} or {the dict returned by the run}
    nsub,                         \* history: tasks handed to the executor
    inflight,                     \* history: tasks handed over, not finished
    recorded,                     \* history: task id of each results entry
    windows,                      \* history: windows started
    overran,                      \* history: some window took a second or more
    late,                         \* history: requests begun after the duration
    nfail,                        \* history: requests ended by a transport failure
    ideal,                        \* history: always-200, zero-latency so far
    p_pc, p_method,               \* a single test_request call: position, HTTP method
    p_headers, p_params,          \* its headers and params dicts
    p_sent,                       \* {} or {the HTTP request handed to requests.request}
    p_result,                     \* {} or {the dict it returned}
    a_results, a_summary,         \* a results list under analysis, {} or {its summary}
    c_pc, c_num, c_started, c_joined, \* main thread of test_concurrent_clients
    c_clients,                    \* the client threads and their counters
    c_results, c_writers,         \* the shared list; history: who appended
    c_totals,                     \* {} or {the aggregated totals}
    g_rate,                       \* rate of the runs of the group comparison
    g_started, g_collected,       \* runs submitted, runs collected
    g_run,                        \* each run's position, window and summary
    g_results,                    \* each run's results list
    g_answers,                    \* history: the answers to each run's requests
    g_report,                     \* the results dict of the comparison
    i_file,                       \* the export file given to the ingester
    i_pc, i_todo,                 \* position of the ingestion, items left
    i_uuid,                       \* uuid4 values drawn so far
    i_writes,                     \* history: the inserts posted to the store
    i_said,                       \* history: what the ingester printed
    i_events_inserted,            \* local of ingest_throttle_events
    i_ret,                        \* {} or {the value ingestion returned}
    i_runs,                       \* history: ingestions of the file begun before this one
    i_main,                       \* history: what the tool did after the ingestion
    t_pc,                         \* position of RateLimitTester.test_rate_limiting
    t_rps, t_duration,            \* its target_rps and duration_seconds
    t_now,                        \* its clock, in ticks
    t_end,                        \* end_time
    t_request_start, t_wake_at,   \* request_start; the end of the pacing sleep
    t_results,                    \* the results dict
    t_total,                      \* {} or {total_requests}
    t_made,                       \* history: calls of make_request that returned
    t_starts                      \* history: the time each request started

vars == <<rate, duration, max_workers, api_key, auth_method, now, pc,
          start_time, batch_start, futures, ci, wake_at, results, summary,
          nsub, inflight, recorded, windows, overran, late, nfail, ideal,
          p_pc, p_method, p_headers, p_params, p_sent, p_result,
          a_results, a_summary,
          c_pc, c_num, c_started, c_joined, c_clients, c_results, c_writers,
          c_totals, g_rate, g_started, g_collected, g_run, g_results,
          g_answers, g_report, i_file, i_pc, i_todo, i_uuid, i_writes,
          i_said, i_events_inserted, i_ret, i_runs, i_main,
          t_pc, t_rps, t_duration, t_now, t_end, t_request_start, t_wake_at,
          t_results, t_total, t_made, t_starts>>

config == <<rate, duration, max_workers, api_key, auth_method, start_time>>

probe == <<p_pc, p_method, p_headers, p_params, p_sent, p_result>>

engine == <<rate, duration, max_workers, now, pc, start_time, batch_start,
            futures, ci, wake_at, results, summary, nsub, inflight, recorded,
            windows, overran, late, nfail, ideal>>

\* the variables of the parts that take no step in a specification
analysis == <<a_results, a_summary>>

clients == <<c_pc, c_num, c_started, c_joined, c_clients, c_results,
             c_writers, c_totals>>

group == <<g_rate, g_started, g_collected, g_run, g_results, g_answers,
           g_report>>

ingest == <<i_file, i_pc, i_todo, i_uuid, i_writes, i_said,
            i_events_inserted, i_ret, i_runs, i_main>>

tester == <<t_pc, t_rps, t_duration, t_now, t_end, t_request_start,
            t_wake_at, t_results, t_total, t_made, t_starts>>

aux == <<analysis, clients, group, ingest, tester>>

\* no run is under way
EngineIdle ==
    /\ rate = 0
    /\ duration = 0
    /\ max_workers = 1
    /\ now = 0
    /\ pc = "idle"
    /\ start_time = 0
    /\ batch_start = 0
    /\ futures = <<>>
    /\ ci = 0
    /\ wake_at = 0
    /\ results = <<>>
    /\ summary = {}
    /\ nsub = 0
    /\ inflight = 0
    /\ recorded = <<>>
    /\ windows = 0
    /\ overran = FALSE
    /\ late = 0
    /\ nfail = 0
    /\ ideal = TRUE

\* no single test_request call is under way
ProbeIdle ==
    /\ p_pc = "idle"
    /\ p_method = "GET"
    /\ p_headers = <<>>
    /\ p_params = <<>>
    /\ p_sent = {}
    /\ p_result = {}

\* no results list is under analysis
AnalysisIdle ==
    /\ a_results = <<>>
    /\ a_summary = {}

\* no concurrent-clients test is under way
ClientsIdle ==
    /\ c_pc = "idle"
    /\ c_num = 0
    /\ c_started = 0
    /\ c_joined = 0
    /\ c_clients = <<>>
    /\ c_results = <<>>
    /\ c_writers = <<>>
    /\ c_totals = {}

\* no group comparison is under way
GroupIdle ==
    /\ g_rate = 0
    /\ g_started = 0
    /\ g_collected = 0
    /\ g_run = <<>>
    /\ g_results = <<>>
    /\ g_answers = <<>>
    /\ g_report = {}

\* no ingestion is under way
IngestIdle ==
    /\ i_file = [kind |-> "none"]
    /\ i_pc = "idle"
    /\ i_todo = <<>>
    /\ i_uuid = 0
    /\ i_writes = <<>>
    /\ i_said = <<>>
    /\ i_events_inserted = 0
    /\ i_ret = {}
    /\ i_runs = 0
    /\ i_main = <<>>

\* test_rate_limiting is not running
TesterIdle ==
    /\ t_pc = "idle"
    /\ t_rps = 0
    /\ t_duration = 0
    /\ t_now = 0
    /\ t_end = 0
    /\ t_request_start = 0
    /\ t_wake_at = 0
    /\ t_results = [successful |-> 0, rate_limited |-> 0, errors |-> 0,
                    response_times |-> <<>>]
    /\ t_total = {}
    /\ t_made = 0
    /\ t_starts = <<>>

AuxIdle ==
    AnalysisIdle /\ ClientsIdle /\ GroupIdle /\ IngestIdle /\ TesterIdle

(* ------------------------- pure helpers -------------------------------- *)
\* r.get('status_code') == s
StatusIs(r, s) == "status_code" \in DOMAIN r /\ r["status_code"] = s

\* 'error' in r
HasError(r) == "error" \in DOMAIN r

\* variant: every result that has a status is counted
CountStatusAny(rs, s) ==
    Cardinality({i \in 1 .. Len(rs) : "status_code" \in DOMAIN rs[i]})

\* len([r for r in rs if r.get('status_code') == s])
CountStatus(rs, s) == Cardinality({i \in 1 .. Len(rs) : StatusIs(rs[i], s)})

\* len([r for r in rs if 'error' in r])
CountErrors(rs) == Cardinality({i \in 1 .. Len(rs) : HasError(rs[i])})

\* result.get('rate_info', {}).get('X-RateLimit-Group') is truthy
HasGroup(r) ==
    /\ "rate_info" \in DOMAIN r
    /\ "X-RateLimit-Group" \in DOMAIN r["rate_info"]
    /\ r["rate_info"]["X-RateLimit-Group"] # ""

RECURSIVE DetectedGroup(_)
DetectedGroup(seq) ==
    IF seq = <<>> THEN "None"
    ELSE IF HasGroup(Head(seq)) THEN Head(seq)["rate_info"]["X-RateLimit-Group"]
    ELSE DetectedGroup(Tail(seq))

Is429(r) == StatusIs(r, 429)

\* the analysis at the end of run_sustained_test (latency fields left out)
Analyze(rs) ==
    [total_requests |-> Len(rs),
     success_count |-> CountStatus(rs, 200),
     rate_limited_count |-> CountStatus(rs, 429),
     error_count |-> CountErrors(rs),
     detected_group |-> DetectedGroup(rs),
     results |-> rs]

\* the counts of analyze_results (test_rate_limit.py)
analyze_results(rs) ==
    [total |-> Len(rs),
     success_count |-> CountStatus(rs, 200),
     rate_limited_count |-> CountStatus(rs, 429),
     error_count |-> CountErrors(rs)]

\* variant: the while test lets the window at the deadline start
KeepRunningInclusive(t, st, d) == t - st <= d * TicksPerSec

\* while time.time() - start_time < duration
KeepRunning(t, st, d) == t - st < d * TicksPerSec

\* variant: one request too many per window
BatchSizeOffByOne(r) == IF r > 0 THEN r + 1 ELSE 0

\* number of iterations of `for _ in range(rate)`
BatchSize(r) == IF r > 0 THEN r ELSE 0

\* variant: the pacing sleep is left out
SleepTimeNone(elapsed) == 0

\* if elapsed < 1.0: time.sleep(1.0 - elapsed)
SleepTime(elapsed) == IF elapsed < TicksPerSec THEN TicksPerSec - elapsed ELSE 0

\* variant: a failed request is not recorded
AppendResultDropErrors(rs, r) == IF HasError(r) THEN rs ELSE Append(rs, r)

\* variant: a result that arrives after the duration is thrown away
AppendResultUnlessLate(rs, r) ==
    IF r["timestamp"] - start_time >= duration * TicksPerSec THEN rs
    ELSE Append(rs, r)

\* results.append(result)
AppendResult(rs, r) == Append(rs, r)

(* ------------- test_request and S3AuthSimulator (one call) ------------- *)
AuthMethods == {"v4", "v2", "presigned", "query_v2", "custom"}
\* a scheme name argparse would not let through, passed by a direct caller
RequestedAuthMethods == AuthMethods \cup {"v5"}
HttpMethods == {"GET", "PUT", "POST"}
ApiKeys == {"test-premium-key", "test-basic-key"}

\* datetime.utcnow().strftime(fmt)
Strftime(fmt, t) == <<fmt, t>>

\* dict.update: the keys of `new` win
Update(old, new) ==
    [k \in DOMAIN old \cup DOMAIN new |->
        IF k \in DOMAIN new THEN new[k] ELSE old[k]]

create_v4_auth_header(access_key, t) ==
    [k \in {"Authorization", "X-Amz-Date", "Host"} |->
        CASE k = "Authorization" ->
                 <<"AWS4-HMAC-SHA256 Credential=", access_key, "/",
                   Strftime("%Y%m%d", t), "/us-east-1/s3/aws4_request",
                   ", SignedHeaders=host;x-amz-date, Signature=dummy-signature">>
          [] k = "X-Amz-Date" -> Strftime("%Y%m%dT%H%M%SZ", t)
          [] k = "Host" -> <<"localhost">>]

create_v2_auth_header(access_key, t) ==
    [k \in {"Authorization", "Date"} |->
        CASE k = "Authorization" -> <<"AWS ", access_key, ":", "dummy-signature-v2">>
          [] k = "Date" -> Strftime("%a, %d %b %Y %H:%M:%S GMT", t)]

create_presigned_url_params(access_key, t) ==
    [k \in {"X-Amz-Algorithm", "X-Amz-Credential", "X-Amz-Date",
            "X-Amz-Expires", "X-Amz-SignedHeaders", "X-Amz-Signature"} |->
        CASE k = "X-Amz-Algorithm" -> <<"AWS4-HMAC-SHA256">>
          [] k = "X-Amz-Credential" ->
                 <<access_key, "/", Strftime("%Y%m%d", t),
                   "/us-east-1/s3/aws4_request">>
          [] k = "X-Amz-Date" -> Strftime("%Y%m%dT%H%M%SZ", t)
          [] k = "X-Amz-Expires" -> <<"3600">>
          [] k = "X-Amz-SignedHeaders" -> <<"host">>
          [] k = "X-Amz-Signature" -> <<"dummy-presigned-signature">>]

BaseHeaders == [k \in {"User-Agent"} |-> <<"test-client/2.0">>]

\* variant: the API key header is attached whatever the scheme
RequestHeadersKeyAlways(auth, key, t) ==
    Update(IF auth = "v4" THEN Update(BaseHeaders, create_v4_auth_header(key, t))
           ELSE IF auth = "v2" THEN Update(BaseHeaders, create_v2_auth_header(key, t))
           ELSE BaseHeaders,
           [k \in {"X-API-Key"} |-> <<key>>])

\* the headers dict after the if/elif chain of test_request
RequestHeaders(auth, key, t) ==
    IF auth = "v4" THEN Update(BaseHeaders, create_v4_auth_header(key, t))
    ELSE IF auth = "v2" THEN Update(BaseHeaders, create_v2_auth_header(key, t))
    ELSE IF auth = "custom" THEN Update(BaseHeaders, [k \in {"X-API-Key"} |-> <<key>>])
    ELSE BaseHeaders

\* the params dict after the if/elif chain of test_request
RequestParams(auth, key, t) ==
    IF auth = "presigned" THEN create_presigned_url_params(key, t)
    ELSE IF auth = "query_v2"
         THEN [k \in {"AWSAccessKeyId", "Signature"} |->
                 IF k = "AWSAccessKeyId" THEN <<key>> ELSE <<"dummy-signature">>]
    ELSE EmptyDict

\* header.lower() for the header names the gateway is modelled to send
Lower(h) ==
    CASE h = "X-RateLimit-Group" -> "x-ratelimit-group"
      [] h = "X-Auth-Method" -> "x-auth-method"
      [] h = "Content-Type" -> "content-type"
      [] OTHER -> h

\* 'rate' in l or 'api-key' in l or 'auth' in l, for a lower-cased name l
MentionsRateInfo(l) == l \in {"x-ratelimit-group", "x-auth-method"}

\* the rate_info dict built from response.headers
RateInfo(headers) ==
    [h \in {x \in DOMAIN headers : MentionsRateInfo(Lower(x))} |-> headers[h]]

\* the dict test_request returns for a response (latency field left out)
OkResult(resp, key, auth, t) ==
    [status_code |-> resp.status,
     rate_info |-> RateInfo(resp.headers),
     api_key |-> key,
     auth_method |-> auth,
     method |-> "GET",
     timestamp |-> t]

\* variant: the failure is returned without its 'error' entry
ErrResultNoKey(key, auth, t) ==
    [api_key |-> key,
     auth_method |-> auth,
     method |-> "GET",
     timestamp |-> t]

\* the dict test_request returns when requests.request raises
ErrResult(key, auth, t) ==
    [error |-> "ConnectionError",
     api_key |-> key,
     auth_method |-> auth,
     method |-> "GET",
     timestamp |-> t]

\* what the gateway may answer to a single probe
ProbeHeaderSets ==
    {EmptyDict,
     [k \in {"X-RateLimit-Group", "Content-Type"} |->
        IF k = "Content-Type" THEN "application/xml" ELSE "premium"],
     [k \in {"x-ratelimit-group", "X-Auth-Method"} |->
        IF k = "X-Auth-Method" THEN "v4_header_auth" ELSE "basic"]}

ProbeResponses == {[status |-> st, headers |-> h] : st \in {200, 429, 500},
                                                       h \in ProbeHeaderSets}

\* test_keys: the group each configured API key is expected in
ExpectedGroup(key) ==
    CASE key = "test-premium-key" -> "premium"
      [] key = "test-standard-key" -> "standard"
      [] key = "test-basic-key" -> "basic"
      [] OTHER -> "unknown"

\* the aggregator's throttle-event log: one event per throttled result, in
\* the order of the results, hints zero when the headers carry none
RECURSIVE ThrottleEventsOf(_, _)
ThrottleEventsOf(rs, key) ==
    IF rs = <<>> THEN <<>>
    ELSE IF StatusIs(Head(rs), 429)
         THEN <<[timestamp |-> Head(rs)["timestamp"],
                 group |-> ExpectedGroup(key),
                 method |-> Head(rs)["method"],
                 remaining |-> 0,
                 reset |-> 0]>> \o ThrottleEventsOf(Tail(rs), key)
    ELSE ThrottleEventsOf(Tail(rs), key)

Running == {k \in 1 .. Len(futures) : futures[k].state = "running"}
Queued == {k \in 1 .. Len(futures) : futures[k].state = "queued"}

\* the instant the run's duration has elapsed
Deadline == start_time + duration * TicksPerSec

\* how long past the deadline the clock of the model follows open requests
GraceTicks == 1

(* ------------------------------ Init ----------------------------------- *)
Init ==
    /\ rate \in Rates
    /\ duration \in Durations
    /\ BatchSize(rate) * duration <= MaxRequests
    /\ max_workers \in 1 .. MaxWorkers
    /\ api_key = "test-premium-key"
    /\ auth_method = "v4"
    /\ now = 0
    /\ pc = "loop"
    /\ start_time = 0
    /\ batch_start = 0
    /\ futures = <<>>
    /\ ci = 0
    /\ wake_at = 0
    /\ results = <<>>
    /\ summary = {}
    /\ nsub = 0
    /\ inflight = 0
    /\ recorded = <<>>
    /\ windows = 0
    /\ overran = FALSE
    /\ late = 0
    /\ nfail = 0
    /\ ideal = TRUE
    /\ ProbeIdle
    /\ AuxIdle

(* ------------------------- main thread --------------------------------- *)
\* the while test; entering the body takes batch_start and clears futures
LoopCheck ==
    /\ pc = "loop"
    /\ IF KeepRunning(now, start_time, duration)
       THEN /\ pc' = "submit"
            /\ batch_start' = now
            /\ futures' = <<>>
            /\ windows' = windows + 1
       ELSE /\ pc' = "analyze"
            /\ UNCHANGED <<batch_start, futures, windows>>
    /\ UNCHANGED <<config, probe, aux, nfail, now, ci, wake_at, results, summary, nsub, inflight,
                   recorded, overran, late, ideal>>

\* executor.submit(test_request, ...); futures.append(future)
Submit ==
    /\ pc = "submit"
    /\ Len(futures) < BatchSize(rate)
    /\ futures' = Append(futures, [id |-> nsub + 1, state |-> "queued",
                                   result |-> EmptyDict])
    /\ nsub' = nsub + 1
    /\ inflight' = inflight + 1
    /\ UNCHANGED <<config, probe, aux, nfail, now, pc, batch_start, ci, wake_at, results, summary,
                   recorded, windows,
                   overran, late, ideal>>

\* the submitting for-loop is exhausted
EndSubmit ==
    /\ pc = "submit"
    /\ Len(futures) >= BatchSize(rate)
    /\ pc' = "collect"
    /\ ci' = 0
    /\ UNCHANGED <<config, probe, aux, nfail, now, batch_start, futures, wake_at, results,
                   summary, nsub, inflight, recorded, windows, overran, late, ideal>>

\* variant: the results are taken as they complete
CollectAsCompleted ==
    /\ pc = "collect"
    /\ ci < Len(futures)
    /\ \E k \in 1 .. Len(futures) :
          /\ futures[k].state = "done"
          /\ \A i \in 1 .. Len(recorded) : recorded[i] # futures[k].id
          /\ results' = AppendResult(results, futures[k].result)
          /\ recorded' = Append(recorded, futures[k].id)
    /\ ci' = ci + 1
    /\ UNCHANGED <<config, probe, aux, nfail, now, pc, batch_start, futures,
                   wake_at, summary, nsub, inflight, windows, overran, late,
                   ideal>>

\* result = future.result(); results.append(result)
Collect ==
    /\ pc = "collect"
    /\ ci < Len(futures)
    /\ futures[ci + 1].state = "done"
    /\ results' = AppendResult(results, futures[ci + 1].result)
    /\ recorded' = Append(recorded, futures[ci + 1].id)
    /\ ci' = ci + 1
    /\ UNCHANGED <<config, probe, aux, nfail, now, pc, batch_start, futures, wake_at, summary,
                   nsub, inflight, windows, overran, late, ideal>>

\* elapsed = time.time() - batch_start; sleep the rest of the second
EndCollect ==
    /\ pc = "collect"
    /\ ci >= Len(futures)
    /\ LET elapsed == now - batch_start
           s == SleepTime(elapsed)
       IN /\ overran' = (overran \/ elapsed >= TicksPerSec)
          /\ IF s > 0
             THEN pc' = "sleep" /\ wake_at' = now + s
             ELSE pc' = "loop" /\ UNCHANGED wake_at
    /\ UNCHANGED <<config, probe, aux, nfail, now, batch_start, futures, ci, results, summary,
                   nsub, inflight, recorded, windows, late, ideal>>

\* variant: the sleep never returns
WakeNever ==
    /\ FALSE
    /\ UNCHANGED vars

\* time.sleep returns, no earlier than asked
Wake ==
    /\ pc = "sleep"
    /\ now >= wake_at
    /\ pc' = "loop"
    /\ wake_at' = 0
    /\ ideal' = (ideal /\ now = wake_at)
    /\ UNCHANGED <<config, probe, aux, nfail, now, batch_start, futures, ci, results,
                   summary, nsub, inflight, recorded, windows, overran, late>>

\* the analysis and the return of the summary
Finish ==
    /\ pc = "analyze"
    /\ summary' = {Analyze(results)}
    /\ pc' = "done"
    /\ UNCHANGED <<config, probe, aux, nfail, now, batch_start, futures, ci, wake_at, results,
                   nsub, inflight, recorded, windows, overran, late, nfail, ideal,
          p_pc, p_method, p_headers, p_params, p_sent, p_result>>

(* ------------------------- worker threads ------------------------------ *)
\* variant: every task runs at once, whatever the size of the pool
BeginNoLimit(k) ==
    /\ k \in Queued
    /\ futures' = [futures EXCEPT ![k].state = "running"]
    /\ late' = IF KeepRunning(now, start_time, duration) THEN late ELSE late + 1
    /\ UNCHANGED <<config, probe, aux, nfail, now, pc, batch_start, ci,
                   wake_at, results, summary, nsub, inflight, recorded,
                   windows, overran, ideal>>

\* a free worker takes the oldest queued task and sends its request
Begin(k) ==
    /\ k \in Queued
    /\ \A j \in Queued : k <= j
    /\ Cardinality(Running) < max_workers
    /\ futures' = [futures EXCEPT ![k].state = "running"]
    /\ late' = IF KeepRunning(now, start_time, duration) THEN late ELSE late + 1
    /\ UNCHANGED <<config, probe, aux, nfail, now, pc, batch_start, ci, wake_at, results, summary,
                   nsub, inflight, recorded, windows, overran, ideal>>

\* the endpoint answers; test_request returns the result dict
Respond(k, resp) ==
    /\ k \in Running
    /\ futures' = [futures EXCEPT ![k].state = "done",
                                  ![k].result = OkResult(resp, api_key,
                                                         auth_method, now)]
    /\ inflight' = inflight - 1
    /\ ideal' = (ideal /\ resp.status = 200)
    /\ UNCHANGED <<config, probe, aux, nfail, now, pc, batch_start, ci, wake_at, results, summary,
                   nsub, recorded, windows, overran, late>>

\* requests.request raises (refused, DNS, timeout); test_request catches it
Fail(k) ==
    /\ k \in Running
    /\ futures' = [futures EXCEPT ![k].state = "done",
                                  ![k].result = ErrResult(api_key, auth_method,
                                                          now)]
    /\ inflight' = inflight - 1
    /\ nfail' = nfail + 1
    /\ ideal' = FALSE
    /\ UNCHANGED <<config, probe, aux, now, pc, batch_start, ci, wake_at, results, summary,
                   nsub, recorded, windows, overran, late>>

(* ------------------------------ clock ---------------------------------- *)
\* time passes; outside an exact pacing sleep it is latency.  The clock of
\* the model runs up to the deadline and, beyond it, to the end of a sleep
\* or, while requests are open, the grace period further.
Tick ==
    /\ \/ now < Deadline
       \/ pc = "sleep" /\ now < wake_at
       \/ inflight > 0 /\ now < Deadline + GraceTicks
    /\ pc \notin {"analyze", "done"}
    /\ now' = now + 1
    /\ ideal' = (ideal /\ pc = "sleep" /\ now < wake_at)
    /\ UNCHANGED <<config, probe, aux, nfail, pc, batch_start, futures, ci, wake_at, results,
                   summary, nsub, inflight, recorded, windows, overran, late>>

Next ==
    \/ LoopCheck
    \/ Submit
    \/ EndSubmit
    \/ Collect
    \/ EndCollect
    \/ Wake
    \/ Finish
    \/ \E k \in 1 .. Len(futures) : Begin(k)
    \/ \E k \in 1 .. Len(futures) : \E resp \in Responses : Respond(k, resp)
    \/ \E k \in 1 .. Len(futures) : Fail(k)
    \/ Tick

Spec == Init /\ [][Next]_vars

\* some request being executed ends: it is answered, or requests gives up
\* on it after its timeout (timeout=5) and raises
RequestEnds ==
    \E k \in 1 .. Len(futures) :
        \/ \E resp \in {r \in Responses : r.status = 200} : Respond(k, resp)
        \/ Fail(k)

\* the threads of the run
MainThreadSteps ==
    LoopCheck \/ Submit \/ EndSubmit \/ Collect \/ EndCollect \/ Wake \/ Finish

WorkerTakes == \E k \in 1 .. Len(futures) : Begin(k)

\* the run with its threads scheduled, its clock running and every request
\* ending; the status of an answer has no part in the control of the run,
\* so the answers are 200
NextLive ==
    \/ MainThreadSteps
    \/ WorkerTakes
    \/ RequestEnds
    \/ Tick

SpecLive ==
    /\ Init
    /\ [][NextLive]_vars
    /\ WF_vars(MainThreadSteps)
    /\ WF_vars(WorkerTakes)
    /\ WF_vars(RequestEnds)
    /\ WF_vars(Tick)

(* --------------------- a single test_request call ---------------------- *)
InitProbe ==
    /\ auth_method \in RequestedAuthMethods
    /\ api_key \in ApiKeys
    /\ p_method \in HttpMethods
    /\ p_pc = "build"
    /\ p_headers = EmptyDict
    /\ p_params = EmptyDict
    /\ p_sent = {}
    /\ p_result = {}
    /\ EngineIdle
    /\ AuxIdle

\* headers and params are filled in by the if/elif chain on auth_method
ProbeBuild ==
    /\ p_pc = "build"
    /\ p_headers' = RequestHeaders(auth_method, api_key, now)
    /\ p_params' = RequestParams(auth_method, api_key, now)
    /\ p_pc' = "send"
    /\ UNCHANGED <<engine, aux, api_key, auth_method, p_method, p_sent, p_result>>

\* requests.request(method, url, headers=headers, params=params, timeout=5)
ProbeSend ==
    /\ p_pc = "send"
    /\ p_sent' = {[method |-> p_method, headers |-> p_headers,
                   params |-> p_params]}
    /\ p_pc' = "wait"
    /\ UNCHANGED <<engine, aux, api_key, auth_method, p_method, p_headers,
                   p_params, p_result>>

\* a response arrives: the result dict with the rate-limit headers
ProbeRespond(resp) ==
    /\ p_pc = "wait"
    /\ p_result' = {[status_code |-> resp.status,
                     rate_info |-> RateInfo(resp.headers),
                     api_key |-> api_key,
                     auth_method |-> auth_method,
                     method |-> p_method,
                     timestamp |-> now]}
    /\ p_pc' = "returned"
    /\ UNCHANGED <<engine, aux, api_key, auth_method, p_method, p_headers,
                   p_params, p_sent>>

\* requests.request raises: the error dict
ProbeFail ==
    /\ p_pc = "wait"
    /\ p_result' = {[error |-> "ConnectionError",
                     api_key |-> api_key,
                     auth_method |-> auth_method,
                     method |-> p_method,
                     timestamp |-> now]}
    /\ p_pc' = "returned"
    /\ UNCHANGED <<engine, aux, api_key, auth_method, p_method, p_headers,
                   p_params, p_sent>>

NextProbe ==
    \/ ProbeBuild
    \/ ProbeSend
    \/ \E resp \in ProbeResponses : ProbeRespond(resp)
    \/ ProbeFail

SpecProbe == InitProbe /\ [][NextProbe]_vars

(* ------------- the analysis of run_sustained_test on its own ------------ *)
\* the result dicts test_request can return for one tenant
ResultDicts ==
    {OkResult(resp, "test-premium-key", "v4", 0) : resp \in ProbeResponses}
        \cup {ErrResult("test-premium-key", "v4", 0)}

ResultLists ==
    UNION {[1 .. n -> ResultDicts] : n \in 0 .. MaxResults}

InitAnalysis ==
    /\ a_results \in ResultLists
    /\ a_summary = {}
    /\ api_key = "test-premium-key"
    /\ auth_method = "v4"
    /\ EngineIdle
    /\ ProbeIdle
    /\ TesterIdle
    /\ ClientsIdle
    /\ GroupIdle
    /\ IngestIdle

\* lines 183-207 applied to the list
AnalyzeResults ==
    /\ a_summary = {}
    /\ a_summary' = {Analyze(a_results)}
    /\ UNCHANGED <<engine, probe, tester, api_key, auth_method, a_results, clients,
                   group, ingest>>

NextAnalysis == AnalyzeResults

SpecAnalysis == InitAnalysis /\ [][NextAnalysis]_vars

(* ------------- test_concurrent_clients of RateLimitTester --------------- *)
\* the thread that runs test_concurrent_clients
MainThread == 0

\* what one list_buckets call of a client can end in
ClientOutcomes == {"ok", "SlowDown", "OtherClientError", "exception"}

\* client_results = {'successful': 0, 'rate_limited': 0, 'errors': 0}
NewClient == [pc |-> "new", successful |-> 0, rate_limited |-> 0, errors |-> 0]

\* the try/except of the client's loop body
Count(c, outcome) ==
    CASE outcome = "ok" -> [c EXCEPT !.successful = @ + 1]
      [] outcome = "SlowDown" -> [c EXCEPT !.rate_limited = @ + 1]
      [] OTHER -> [c EXCEPT !.errors = @ + 1]

Loops(c) == c.successful + c.rate_limited + c.errors

\* sum(r[1][f] for r in results)
RECURSIVE SumOf(_, _)
SumOf(rs, f) ==
    IF rs = <<>> THEN 0 ELSE Head(rs)[2][f] + SumOf(Tail(rs), f)

\* lines 216-219
Totals(rs) ==
    [total_success |-> SumOf(rs, "successful"),
     total_rate_limited |-> SumOf(rs, "rate_limited"),
     total_errors |-> SumOf(rs, "errors"),
     total_requests |-> SumOf(rs, "successful") + SumOf(rs, "rate_limited")
                           + SumOf(rs, "errors")]

InitClients ==
    /\ c_pc = "start"
    /\ c_num \in 1 .. MaxClients
    /\ c_started = 0
    /\ c_joined = 0
    /\ c_clients = [i \in 1 .. c_num |-> NewClient]
    /\ c_results = <<>>
    /\ c_writers = <<>>
    /\ c_totals = {}
    /\ api_key = "test-premium-key"
    /\ auth_method = "v4"
    /\ EngineIdle
    /\ ProbeIdle
    /\ TesterIdle
    /\ AnalysisIdle
    /\ GroupIdle
    /\ IngestIdle

\* lines 206-209: the main thread starts the next client thread
StartClient ==
    /\ c_pc = "start"
    /\ c_started < c_num
    /\ c_started' = c_started + 1
    /\ c_clients' = [c_clients EXCEPT ![c_started + 1].pc = "loop"]
    /\ UNCHANGED <<engine, probe, tester, api_key, auth_method, analysis, group, ingest,
                   c_pc, c_num,
                   c_joined, c_results, c_writers, c_totals>>

\* the for loop of lines 206-209 is exhausted
EndStart ==
    /\ c_pc = "start"
    /\ c_started = c_num
    /\ c_pc' = "join"
    /\ UNCHANGED <<engine, probe, tester, api_key, auth_method, analysis, group, ingest,
                   c_num,
                   c_started, c_joined, c_clients, c_results, c_writers,
                   c_totals>>

\* lines 189-200: one pass of client i's loop; the clock test of line 189
\* passed
ClientLoop(i, outcome) ==
    /\ c_clients[i].pc = "loop"
    /\ Loops(c_clients[i]) < MaxLoops
    /\ c_clients' = [c_clients EXCEPT ![i] = Count(@, outcome)]
    /\ UNCHANGED <<engine, probe, tester, api_key, auth_method, analysis, group, ingest,
                   c_pc, c_num,
                   c_started, c_joined, c_results, c_writers, c_totals>>

\* line 202: the clock test of line 189 failed; client i appends its
\* counters to the list of the enclosing function
ClientExit(i) ==
    /\ c_clients[i].pc = "loop"
    /\ c_results' = Append(c_results,
                           <<i, [f \in {"successful", "rate_limited", "errors"}
                                    |-> c_clients[i][f]]>>)
    /\ c_writers' = Append(c_writers, i)
    /\ c_clients' = [c_clients EXCEPT ![i].pc = "finished"]
    /\ UNCHANGED <<engine, probe, tester, api_key, auth_method, analysis, group, ingest,
                   c_pc, c_num,
                   c_started, c_joined, c_totals>>

\* a join that returns while the thread still runs
JoinNoWait ==
    /\ c_pc = "join"
    /\ c_joined < c_num
    /\ c_joined' = c_joined + 1
    /\ UNCHANGED <<engine, probe, tester, api_key, auth_method, analysis, group, ingest,
                   c_pc, c_num,
                   c_started, c_clients, c_results, c_writers, c_totals>>

\* lines 212-213: thread.join() of the next thread returns
Join ==
    /\ c_pc = "join"
    /\ c_joined < c_num
    /\ c_clients[c_joined + 1].pc = "finished"
    /\ c_joined' = c_joined + 1
    /\ UNCHANGED <<engine, probe, tester, api_key, auth_method, analysis, group, ingest,
                   c_pc, c_num,
                   c_started, c_clients, c_results, c_writers, c_totals>>

\* lines 216-226: the totals; the percentage of line 226 divides by
\* total_requests
Aggregate ==
    /\ c_pc = "join"
    /\ c_joined = c_num
    /\ c_totals' = {Totals(c_results)}
    /\ c_pc' = IF Totals(c_results).total_requests = 0 THEN "raised"
               ELSE "done"
    /\ UNCHANGED <<engine, probe, tester, api_key, auth_method, analysis, group, ingest,
                   c_num,
                   c_started, c_joined, c_clients, c_results, c_writers>>

NextClients ==
    \/ StartClient
    \/ EndStart
    \/ \E i \in 1 .. c_num, o \in ClientOutcomes : ClientLoop(i, o)
    \/ \E i \in 1 .. c_num : ClientExit(i)
    \/ Join
    \/ Aggregate

SpecClients == InitClients /\ [][NextClients]_vars

(* ------------- run_group_comparison_test: concurrent runs --------------- *)
\* the first keys of test_keys, one run each
PairKeys == <<"test-premium-key", "test-standard-key">>
NumRuns == Len(PairKeys)

\* no answer: requests.request raises
NoAnswer == [status |-> 0, headers |-> EmptyDict]

PairAnswers == {r \in Responses : r.status \in {200, 429}} \cup {NoAnswer}

\* the dict test_request returns for the given answer of the gateway
TestRequest(key, auth, ans) ==
    IF ans.status = 0 THEN ErrResult(key, auth, 0)
    ELSE OkResult(ans, key, auth, 0)

\* variant: every run appends to the list of the first run
ResultsOfShared(r) == 1

\* results = [] (line 160): the list run r appends to is its own local
ResultsOf(r) == r

NewRun == [pc |-> "new", futures |-> <<>>, ci |-> 1, windows |-> 0,
           summary |-> {}]

InitPair ==
    /\ g_rate \in 1 .. MaxPairRequests
    /\ g_started = 0
    /\ g_collected = 0
    /\ g_run = [r \in 1 .. NumRuns |-> NewRun]
    /\ g_results = [r \in 1 .. NumRuns |-> <<>>]
    /\ g_answers = [r \in 1 .. NumRuns |-> <<>>]
    /\ g_report = {}
    /\ api_key = "test-premium-key"
    /\ auth_method = "v4"
    /\ EngineIdle
    /\ ProbeIdle
    /\ TesterIdle
    /\ AnalysisIdle
    /\ ClientsIdle
    /\ IngestIdle

\* lines 130-132: the next run is handed to the outer pool, which has a
\* worker for every key
SubmitRun ==
    /\ g_started < NumRuns
    /\ g_started' = g_started + 1
    /\ g_run' = [g_run EXCEPT ![g_started + 1].pc = "loop"]
    /\ UNCHANGED <<engine, probe, tester, api_key, auth_method, analysis, clients,
                   ingest, g_rate, g_collected, g_results, g_answers, g_report>>

\* lines 164-171 of run r: the duration test passes and the window's
\* requests are handed to the run's own pool
Window(r) ==
    /\ g_run[r].pc = "loop"
    /\ (g_run[r].windows + 1) * g_rate <= MaxPairRequests
    /\ g_run' = [g_run EXCEPT ![r].pc = "collect",
                              ![r].ci = 1,
                              ![r].windows = @ + 1,
                              ![r].futures =
                                  [k \in 1 .. BatchSize(g_rate) |->
                                      [ans |-> {}, result |-> {}]]]
    /\ UNCHANGED <<engine, probe, tester, api_key, auth_method, analysis, clients,
                   ingest, g_rate, g_started, g_collected, g_results, g_answers,
                   g_report>>

\* a worker of run r's pool finishes test_request for future k
Answer(r, k, ans) ==
    /\ g_run[r].pc = "collect"
    /\ k \in DOMAIN g_run[r].futures
    /\ g_run[r].futures[k].result = {}
    /\ g_run' = [g_run EXCEPT ![r].futures[k] =
                    [ans |-> {ans},
                     result |-> {TestRequest(PairKeys[r], "v4", ans)}]]
    /\ UNCHANGED <<engine, probe, tester, api_key, auth_method, analysis, clients,
                   ingest, g_rate, g_started, g_collected, g_results, g_answers,
                   g_report>>

\* lines 174-176 of run r: future.result() returns and is appended; after
\* the last one the run is back at the duration test
CollectOne(r) ==
    /\ g_run[r].pc = "collect"
    /\ g_run[r].ci <= Len(g_run[r].futures)
    /\ \E f \in {g_run[r].futures[g_run[r].ci]} :
          /\ f.result # {}
          /\ \E res \in f.result :
                g_results' = [g_results EXCEPT ![ResultsOf(r)] =
                                 AppendResult(@, res)]
          /\ \E ans \in f.ans :
                g_answers' = [g_answers EXCEPT ![r] = Append(@, ans)]
    /\ g_run' = [g_run EXCEPT ![r].ci = @ + 1,
                              ![r].pc = IF g_run[r].ci = Len(g_run[r].futures)
                                        THEN "loop" ELSE "collect"]
    /\ UNCHANGED <<engine, probe, tester, api_key, auth_method, analysis, clients,
                   ingest, g_rate, g_started, g_collected, g_report>>

\* lines 164, 183-207 of run r: the duration test fails and the run
\* returns the analysis of its list
Return(r) ==
    /\ g_run[r].pc = "loop"
    /\ g_run' = [g_run EXCEPT ![r].pc = "returned",
                              ![r].summary = {Analyze(g_results[ResultsOf(r)])}]
    /\ UNCHANGED <<engine, probe, tester, api_key, auth_method, analysis, clients,
                   ingest, g_rate, g_started, g_collected, g_results, g_answers,
                   g_report>>

\* lines 134-139: the outer thread takes the next run's result, in the
\* order of submission, and files it under the run's key
CollectRun ==
    /\ g_started = NumRuns
    /\ g_collected < NumRuns
    /\ g_run[g_collected + 1].pc = "returned"
    /\ g_collected' = g_collected + 1
    /\ g_report' = g_report \cup
          {[api_key |-> PairKeys[g_collected + 1],
            expected_group |-> ExpectedGroup(PairKeys[g_collected + 1]),
            results |-> s] : s \in g_run[g_collected + 1].summary}
    /\ UNCHANGED <<engine, probe, tester, api_key, auth_method, analysis, clients,
                   ingest, g_rate, g_started, g_run, g_results, g_answers>>

NextPair ==
    \/ SubmitRun
    \/ \E r \in 1 .. NumRuns : Window(r)
    \/ \E r \in 1 .. NumRuns, k \in 1 .. MaxPairRequests, ans \in PairAnswers :
          Answer(r, k, ans)
    \/ \E r \in 1 .. NumRuns : CollectOne(r)
    \/ \E r \in 1 .. NumRuns : Return(r)
    \/ CollectRun

SpecPair == InitPair /\ [][NextPair]_vars

\* what run r reports when it runs alone and gets the same answers
Alone(r) ==
    Analyze([i \in 1 .. Len(g_answers[r]) |->
                TestRequest(PairKeys[r], "v4", g_answers[r][i])])

(* ------------- MinIOHyperDXIngester.ingest_comprehensive_results -------- *)
\* d.get(k, default)
Get(d, k, default) == IF k \in DOMAIN d THEN d[k] ELSE default

\* json.dumps(d): the text of d
JsonDumps(d) == <<"json", d>>

\* the groups an export can name, in the order of the file
IngestGroups == <<"premium", "basic">>

\* d.items(): the keys of d in the order of the file
Items(d) == SelectSeq(IngestGroups, LAMBDA g : g \in DOMAIN d)

FullEvent ==
    [Timestamp |-> "2025-01-01T10:00:00", Group |-> "premium",
     Method |-> "GET", RemainingReqs |-> 3, ResetIn |-> 7]

\* an event without its optional fields
BareEvent == [Timestamp |-> "2025-01-01T10:00:01"]

EventLists ==
    UNION {[1 .. n -> {FullEvent, BareEvent}] : n \in 0 .. MaxEvents}

\* RateLimitAnalysis objects: whole, or with fields left out
Analyses ==
    {[EffectiveLimit |-> 5, ObservedBursts |-> 1, SuccessRate |-> 50,
      ThrottleEvents |-> el] : el \in EventLists}
        \cup {[EffectiveLimit |-> 5]}

GroupBase == [APIKey |-> "test-premium-key", RequestsSent |-> 4, Tag |-> "x"]

\* a group whose free-text field holds an apostrophe
GroupQuoted == [GroupBase EXCEPT !["Tag"] = "it's"]

GroupDatas ==
    {GroupBase, GroupQuoted}
        \cup {Update(GroupBase, [k \in {"RateLimitAnalysis"} |-> a]) :
                a \in Analyses}

\* the number of throttle events listed under the groups of d
RECURSIVE EventsUnder(_, _)
EventsUnder(d, keys) ==
    IF keys = <<>> THEN 0
    ELSE (IF "RateLimitAnalysis" \in DOMAIN d[Head(keys)]
             /\ "ThrottleEvents" \in DOMAIN d[Head(keys)]["RateLimitAnalysis"]
          THEN Len(d[Head(keys)]["RateLimitAnalysis"]["ThrottleEvents"])
          ELSE 0) + EventsUnder(d, Tail(keys))

\* the number of throttle events in a mapping group -> analysis
RECURSIVE EventsIn(_, _)
EventsIn(d, keys) ==
    IF keys = <<>> THEN 0
    ELSE (IF "ThrottleEvents" \in DOMAIN d[Head(keys)]
          THEN Len(d[Head(keys)]["ThrottleEvents"]) ELSE 0)
         + EventsIn(d, Tail(keys))

ByGroups ==
    {bg \in UNION {[G -> GroupDatas] : G \in SUBSET {"premium", "basic"}} :
        EventsUnder(bg, Items(bg)) <= MaxEvents}

TopAnalyses ==
    {ta \in UNION {[G -> Analyses] : G \in SUBSET {"premium", "basic"}} :
        EventsIn(ta, Items(ta)) <= MaxEvents}

SummaryBase == [TotalTests |-> 2, TotalRequests |-> 8]

\* the groups of an export that lists its events at the top of the summary
PlainByGroups ==
    {bg \in ByGroups :
        \A g \in DOMAIN bg :
            \/ bg[g] = GroupBase
            \/ /\ "RateLimitAnalysis" \in DOMAIN bg[g]
               /\ bg[g]["RateLimitAnalysis"] = [EffectiveLimit |-> 5]}

Summaries ==
    {SummaryBase}
        \cup {Update(SummaryBase, [k \in {"ByGroup"} |-> bg]) : bg \in ByGroups}
        \cup {Update(SummaryBase, [k \in {"RateLimitAnalysis"} |-> ta]) :
                ta \in TopAnalyses}
        \cup {Update(SummaryBase,
                     [k \in {"ByGroup", "RateLimitAnalysis"} |->
                         IF k = "ByGroup" THEN bg ELSE ta]) :
                bg \in PlainByGroups, ta \in TopAnalyses}

\* the JSON documents the file can hold
Exports ==
    {[results |-> <<>>]} \cup {[summary |-> sm] : sm \in Summaries}

ExportFiles ==
    {[kind |-> "missing"], [kind |-> "invalid"]}
        \cup {[kind |-> "json", data |-> d] : d \in Exports}

\* what the store can do with one POST: accept, refuse, be unreachable
\* (status 0: requests raises RequestException)
StoreReplies ==
    {[status |-> 200, text |-> ""],
     [status |-> 500, text |-> "Code: 60"],
     [status |-> 0, text |-> ""]}

\* execute_sql, lines 98-111
execute_sql(reply) == IF reply.status = 200 THEN reply.text ELSE ""

\* the texts of the exports that contain an apostrophe
Apostrophed == {"it's"}

\* the keys of the exports that hold text
TextKeys == {"APIKey", "Tag", "Timestamp", "Group", "Method"}

\* some text of the object d contains an apostrophe
HasApostrophe(d) == \E k \in DOMAIN d \cap TextKeys : d[k] \in Apostrophed

\* some text of a group of the summary contains an apostrophe
SummaryHasApostrophe(sm) ==
    /\ "ByGroup" \in DOMAIN sm
    /\ \E g \in DOMAIN sm["ByGroup"] : HasApostrophe(sm["ByGroup"][g])

\* '{text}' inside the f-string of an INSERT, as the parser of the store
\* reads it: nothing is escaped, so the literal ends at the first
\* apostrophe of the text and the rest of the text is not in the value
SqlQuoted(text, apostrophe) ==
    IF apostrophe THEN <<"cut", text[1]>> ELSE text

\* variant: the same identifier every time
Uuid4Fixed(n) == 1

\* str(uuid.uuid4()): a value not drawn before, n being the values drawn
Uuid4(n) == n + 1

\* the VALUES of ingest_summary
SummaryRow(sm) ==
    [total_tests |-> Get(sm, "TotalTests", 0),
     total_requests |-> Get(sm, "TotalRequests", 0),
     summary_data |-> SqlQuoted(JsonDumps(sm), SummaryHasApostrophe(sm))]

\* variant: the analysis fields are looked up in the group object itself
GroupRowFlat(id, name, gd) ==
    [test_id |-> id,
     test_group |-> name,
     api_key |-> Get(gd, "APIKey", ""),
     requests_sent |-> Get(gd, "RequestsSent", 0),
     effective_limit |-> Get(gd, "EffectiveLimit", 0),
     observed_bursts |-> Get(gd, "ObservedBursts", 0),
     success_rate |-> Get(gd, "SuccessRate", 0),
     raw_data |-> SqlQuoted(JsonDumps(gd), HasApostrophe(gd))]

\* the VALUES of ingest_group_results
GroupRow(id, name, gd) ==
    LET rla == IF "RateLimitAnalysis" \in DOMAIN gd
               THEN gd["RateLimitAnalysis"] ELSE EmptyDict
    IN [test_id |-> id,
        test_group |-> name,
        api_key |-> Get(gd, "APIKey", ""),
        requests_sent |-> Get(gd, "RequestsSent", 0),
        effective_limit |-> Get(rla, "EffectiveLimit", 0),
        observed_bursts |-> Get(rla, "ObservedBursts", 0),
        success_rate |-> Get(rla, "SuccessRate", 0),
        raw_data |-> SqlQuoted(JsonDumps(gd), HasApostrophe(gd))]

\* variant: an absent hint is stored as -1
EventRowNoDefault(name, ev) ==
    [timestamp |-> ev["Timestamp"],
     test_group |-> Get(ev, "Group", name),
     method |-> Get(ev, "Method", ""),
     remaining_requests |-> Get(ev, "RemainingReqs", -1),
     reset_in_seconds |-> Get(ev, "ResetIn", -1),
     event_data |-> SqlQuoted(JsonDumps(ev), HasApostrophe(ev))]

\* the VALUES of ingest_throttle_events
EventRow(name, ev) ==
    [timestamp |-> ev["Timestamp"],
     test_group |-> Get(ev, "Group", name),
     method |-> Get(ev, "Method", ""),
     remaining_requests |-> Get(ev, "RemainingReqs", 0),
     reset_in_seconds |-> Get(ev, "ResetIn", 0),
     event_data |-> SqlQuoted(JsonDumps(ev), HasApostrophe(ev))]

\* the events ingest_throttle_events walks through, lines 208-210
RECURSIVE EventItems(_, _)
EventItems(rla, keys) ==
    IF keys = <<>> THEN <<>>
    ELSE (IF "ThrottleEvents" \in DOMAIN rla[Head(keys)]
          THEN [i \in 1 .. Len(rla[Head(keys)]["ThrottleEvents"]) |->
                   [group |-> Head(keys),
                    event |-> rla[Head(keys)]["ThrottleEvents"][i]]]
          ELSE <<>>) \o EventItems(rla, Tail(keys))

\* lines 139-140: the events are looked up under summary.RateLimitAnalysis
EventSource(sm) ==
    IF "RateLimitAnalysis" \in DOMAIN sm
    THEN EventItems(sm["RateLimitAnalysis"], Items(sm["RateLimitAnalysis"]))
    ELSE <<>>

InitIngest ==
    /\ i_file \in ExportFiles
    /\ i_pc = "open"
    /\ i_todo = <<>>
    /\ i_uuid = 0
    /\ i_writes = <<>>
    /\ i_said = <<>>
    /\ i_events_inserted = 0
    /\ i_ret = {}
    /\ i_runs = 0
    /\ i_main = <<>>
    /\ api_key = "test-premium-key"
    /\ auth_method = "v4"
    /\ EngineIdle
    /\ ProbeIdle
    /\ TesterIdle
    /\ AnalysisIdle
    /\ ClientsIdle
    /\ GroupIdle

\* lines 117-125: the file is missing or not JSON
OpenFails ==
    /\ i_pc = "open"
    /\ i_file.kind # "json"
    /\ i_ret' = {FALSE}
    /\ i_pc' = "done"
    /\ UNCHANGED <<engine, probe, tester, api_key, auth_method, analysis, clients,
                   group, i_main, i_runs, i_file, i_todo, i_uuid, i_writes, i_said,
                   i_events_inserted>>

\* lines 117-119, 131-132, 144-161: the file loads and the summary row is
\* posted; lines 135-136: the groups to walk through
IngestSummary(reply) ==
    /\ i_pc = "open"
    /\ i_file.kind = "json"
    /\ "summary" \in DOMAIN i_file.data
    /\ LET sm == i_file.data["summary"]
       IN /\ i_writes' = Append(i_writes,
                                [table |-> "test_summary",
                                 row |-> SummaryRow(sm),
                                 status |-> reply.status,
                                 run |-> i_runs])
          /\ i_said' = Append(i_said,
                              [about |-> Len(i_writes) + 1,
                               inserted |-> execute_sql(reply) = ""])
          /\ i_todo' = IF "ByGroup" \in DOMAIN sm
                       THEN [i \in 1 .. Len(Items(sm["ByGroup"])) |->
                                [group |-> Items(sm["ByGroup"])[i]]]
                       ELSE <<>>
    /\ i_pc' = "groups"
    /\ UNCHANGED <<engine, probe, tester, api_key, auth_method, analysis, clients,
                   group, i_main, i_runs, i_file, i_uuid, i_events_inserted, i_ret>>

\* lines 131, 135, 139, 142: a document without 'summary' is accepted and
\* nothing is posted
NoSummary ==
    /\ i_pc = "open"
    /\ i_file.kind = "json"
    /\ "summary" \notin DOMAIN i_file.data
    /\ i_ret' = {TRUE}
    /\ i_pc' = "done"
    /\ UNCHANGED <<engine, probe, tester, api_key, auth_method, analysis, clients,
                   group, i_main, i_runs, i_file, i_todo, i_uuid, i_writes, i_said,
                   i_events_inserted>>

\* lines 167-201: one pass of the loop of ingest_group_results
IngestGroup(reply) ==
    /\ i_pc = "groups"
    /\ i_todo # <<>>
    /\ LET name == Head(i_todo).group
           gd == i_file.data["summary"]["ByGroup"][name]
       IN i_writes' = Append(i_writes,
                             [table |-> "test_results",
                              row |-> GroupRow(Uuid4(i_uuid), name, gd),
                              status |-> reply.status,
                              run |-> i_runs])
    /\ i_uuid' = i_uuid + 1
    /\ i_said' = Append(i_said,
                        [about |-> Len(i_writes) + 1,
                         inserted |-> execute_sql(reply) = ""])
    /\ i_todo' = Tail(i_todo)
    /\ UNCHANGED <<engine, probe, tester, api_key, auth_method, analysis, clients,
                   group, i_main, i_runs, i_file, i_pc, i_events_inserted, i_ret>>

\* lines 139-140, 207-210: the groups are done; the events to walk through
EndGroups ==
    /\ i_pc = "groups"
    /\ i_todo = <<>>
    /\ i_todo' = EventSource(i_file.data["summary"])
    /\ i_pc' = "events"
    /\ UNCHANGED <<engine, probe, tester, api_key, auth_method, analysis, clients,
                   group, i_main, i_runs, i_file, i_uuid, i_writes, i_said,
                   i_events_inserted, i_ret>>

\* lines 211-225: one pass of the inner loop of ingest_throttle_events
IngestEvent(reply) ==
    /\ i_pc = "events"
    /\ i_todo # <<>>
    /\ i_writes' = Append(i_writes,
                          [table |-> "throttle_events",
                           row |-> EventRow(Head(i_todo).group,
                                            Head(i_todo).event),
                           status |-> reply.status,
                           run |-> i_runs])
    /\ i_events_inserted' =
          IF execute_sql(reply) = "" THEN i_events_inserted + 1
          ELSE i_events_inserted
    /\ i_todo' = Tail(i_todo)
    /\ UNCHANGED <<engine, probe, tester, api_key, auth_method, analysis, clients,
                   group, i_main, i_runs, i_file, i_pc, i_uuid, i_said, i_ret>>

\* lines 227, 142: the events are done; ingestion returns True
IngestReturn ==
    /\ i_pc = "events"
    /\ i_todo = <<>>
    /\ i_said' = IF "RateLimitAnalysis" \in DOMAIN i_file.data["summary"]
                 THEN Append(i_said, [about |-> 0, count |-> i_events_inserted])
                 ELSE i_said
    /\ i_ret' = {TRUE}
    /\ i_pc' = "done"
    /\ UNCHANGED <<engine, probe, tester, api_key, auth_method, analysis, clients,
                   group, i_main, i_runs, i_file, i_todo, i_uuid, i_writes,
                   i_events_inserted>>

\* the views created whatever the ingestion returned
CreateViewsAlways ==
    /\ i_pc = "done"
    /\ i_main = <<>>
    /\ i_main' = <<"views">>
    /\ UNCHANGED <<engine, probe, tester, api_key, auth_method, analysis, clients,
                   group, i_runs, i_file, i_pc, i_todo, i_uuid, i_writes,
                   i_said, i_events_inserted, i_ret>>

\* main, lines 331-333: ingestion returned True; create_hyperdx_views posts
\* its three CREATE OR REPLACE VIEW statements
CreateViews ==
    /\ i_pc = "done"
    /\ i_ret = {TRUE}
    /\ i_main = <<>>
    /\ i_main' = <<"views">>
    /\ UNCHANGED <<engine, probe, tester, api_key, auth_method, analysis, clients,
                   group, i_runs, i_file, i_pc, i_todo, i_uuid, i_writes,
                   i_said, i_events_inserted, i_ret>>

\* main, lines 335-336: verify_ingestion runs its SELECT statements
VerifyIngestion ==
    /\ i_pc = "done"
    /\ i_main = <<"views">>
    /\ i_main' = <<"views", "verify">>
    /\ UNCHANGED <<engine, probe, tester, api_key, auth_method, analysis, clients,
                   group, i_runs, i_file, i_pc, i_todo, i_uuid, i_writes,
                   i_said, i_events_inserted, i_ret>>

\* main, lines 345-346: ingestion returned False
IngestFailed ==
    /\ i_pc = "done"
    /\ i_ret = {FALSE}
    /\ i_main = <<>>
    /\ i_main' = <<"failed">>
    /\ UNCHANGED <<engine, probe, tester, api_key, auth_method, analysis, clients,
                   group, i_runs, i_file, i_pc, i_todo, i_uuid, i_writes,
                   i_said, i_events_inserted, i_ret>>

NextIngest ==
    \/ OpenFails
    \/ \E reply \in StoreReplies : IngestSummary(reply)
    \/ NoSummary
    \/ \E reply \in StoreReplies : IngestGroup(reply)
    \/ EndGroups
    \/ \E reply \in StoreReplies : IngestEvent(reply)
    \/ IngestReturn
    \/ CreateViews
    \/ VerifyIngestion
    \/ IngestFailed

SpecIngest == InitIngest /\ [][NextIngest]_vars

\* the inserts posted into table t so far
WritesTo(t) == {k \in 1 .. Len(i_writes) : i_writes[k].table = t}

(* ------------- import_results_to_clickhouse (import_data.py) ------------ *)
\* lines 26-38: the record built for one group
ImportRecord(id, name, gd) ==
    [test_id |-> id,
     group |-> name,
     api_key |-> Get(gd, "APIKey", ""),
     method |-> Get(gd, "Method", "Combined"),
     requests_sent |-> Get(gd, "RequestsSent", 0)]

\* lines 23-39: the records of the export, a fresh test_id each
ImportRecords(data, drawn) ==
    IF "summary" \in DOMAIN data /\ "ByGroup" \in DOMAIN data["summary"]
    THEN LET bg == data["summary"]["ByGroup"]
         IN [i \in 1 .. Len(Items(bg)) |->
                ImportRecord(Uuid4(drawn + i - 1), Items(bg)[i],
                             bg[Items(bg)[i]])]
    ELSE <<>>

InitImport ==
    /\ i_file \in ExportFiles
    /\ i_pc = "import_open"
    /\ i_todo = <<>>
    /\ i_uuid = 0
    /\ i_writes = <<>>
    /\ i_said = <<>>
    /\ i_events_inserted = 0
    /\ i_ret = {}
    /\ i_runs = 0
    /\ i_main = <<>>
    /\ api_key = "test-premium-key"
    /\ auth_method = "v4"
    /\ EngineIdle
    /\ ProbeIdle
    /\ TesterIdle
    /\ AnalysisIdle
    /\ ClientsIdle
    /\ GroupIdle

\* lines 12-20: the file is missing or not JSON
ImportOpenFails ==
    /\ i_pc = "import_open"
    /\ i_file.kind # "json"
    /\ i_ret' = {FALSE}
    /\ i_pc' = "import_done"
    /\ UNCHANGED <<engine, probe, tester, api_key, auth_method, analysis, clients,
                   group, i_main, i_runs, i_file, i_todo, i_uuid, i_writes, i_said,
                   i_events_inserted>>

\* lines 12-45: the file loads and the records are built; without records
\* the import returns False
ImportCollect ==
    /\ i_pc = "import_open"
    /\ i_file.kind = "json"
    /\ LET records == ImportRecords(i_file.data, i_uuid)
       IN /\ i_todo' = records
          /\ i_uuid' = i_uuid + Len(records)
          /\ i_ret' = IF records = <<>> THEN {FALSE} ELSE i_ret
          /\ i_pc' = IF records = <<>> THEN "import_done" ELSE "import_insert"
    /\ UNCHANGED <<engine, probe, tester, api_key, auth_method, analysis, clients,
                   group, i_main, i_runs, i_file, i_writes, i_said,
                   i_events_inserted>>

\* lines 48-66: one pass of the insert loop; a RequestException (status 0)
\* ends the import with False
ImportInsert(reply) ==
    /\ i_pc = "import_insert"
    /\ i_todo # <<>>
    /\ i_writes' = Append(i_writes,
                          [table |-> "test_results",
                           row |-> Head(i_todo),
                           status |-> reply.status,
                           run |-> i_runs])
    /\ i_said' = IF reply.status = 0 THEN i_said
                 ELSE Append(i_said,
                             [about |-> Len(i_writes) + 1,
                              inserted |-> reply.status = 200])
    /\ i_todo' = Tail(i_todo)
    /\ i_ret' = IF reply.status = 0 THEN {FALSE} ELSE i_ret
    /\ i_pc' = IF reply.status = 0 THEN "import_done" ELSE i_pc
    /\ UNCHANGED <<engine, probe, tester, api_key, auth_method, analysis, clients,
                   group, i_main, i_runs, i_file, i_uuid, i_events_inserted>>

\* line 68: the loop is exhausted
ImportReturn ==
    /\ i_pc = "import_insert"
    /\ i_todo = <<>>
    /\ i_ret' = {TRUE}
    /\ i_pc' = "import_done"
    /\ UNCHANGED <<engine, probe, tester, api_key, auth_method, analysis, clients,
                   group, i_main, i_runs, i_file, i_todo, i_uuid, i_writes, i_said,
                   i_events_inserted>>

\* import_data.py lines 95-97: the import returned True; verify_data runs
\* its SELECT statements
ImportVerify ==
    /\ i_pc = "import_done"
    /\ i_ret = {TRUE}
    /\ i_main = <<>>
    /\ i_main' = <<"verify">>
    /\ UNCHANGED <<engine, probe, tester, api_key, auth_method, analysis, clients,
                   group, i_runs, i_file, i_pc, i_todo, i_uuid, i_writes,
                   i_said, i_events_inserted, i_ret>>

\* import_data.py lines 103-104: the import returned False
ImportFailed ==
    /\ i_pc = "import_done"
    /\ i_ret = {FALSE}
    /\ i_main = <<>>
    /\ i_main' = <<"failed">>
    /\ UNCHANGED <<engine, probe, tester, api_key, auth_method, analysis, clients,
                   group, i_runs, i_file, i_pc, i_todo, i_uuid, i_writes,
                   i_said, i_events_inserted, i_ret>>

NextImport ==
    \/ ImportOpenFails
    \/ ImportCollect
    \/ \E reply \in StoreReplies : ImportInsert(reply)
    \/ ImportReturn
    \/ ImportVerify
    \/ ImportFailed

SpecImport == InitImport /\ [][NextImport]_vars

(* ------------- the same file ingested again ---------------------------- *)
\* an ingestion or an import has ended
Ended == i_pc \in {"done", "import_done"}

\* a missing file, a file that is not JSON, a document without summary,
\* and small exports: at most
\* one group, at most one throttle event
ReingestFiles ==
    {[kind |-> "missing"], [kind |-> "invalid"],
     [kind |-> "json", data |-> [results |-> <<>>]]}
    \cup
    {f \in ExportFiles :
        /\ f.kind = "json"
        /\ "summary" \in DOMAIN f.data
        /\ "ByGroup" \in DOMAIN f.data["summary"]
        /\ LET sm == f.data["summary"]
           IN /\ Cardinality(DOMAIN sm["ByGroup"]) <= 1
              /\ \A g \in DOMAIN sm["ByGroup"] : sm["ByGroup"][g] = GroupBase
              /\ "RateLimitAnalysis" \in DOMAIN sm =>
                    /\ Cardinality(DOMAIN sm["RateLimitAnalysis"]) <= 1
                    /\ Len(EventSource(sm)) <= 1}

InitReingest ==
    /\ i_file \in ReingestFiles
    /\ i_pc \in {"open", "import_open"}
    /\ i_todo = <<>>
    /\ i_uuid = 0
    /\ i_writes = <<>>
    /\ i_said = <<>>
    /\ i_events_inserted = 0
    /\ i_ret = {}
    /\ i_runs = 0
    /\ i_main = <<>>
    /\ api_key = "test-premium-key"
    /\ auth_method = "v4"
    /\ EngineIdle
    /\ ProbeIdle
    /\ TesterIdle
    /\ AnalysisIdle
    /\ ClientsIdle
    /\ GroupIdle

\* the tool is started again on the same file; the store keeps its rows
Again ==
    /\ Ended
    /\ i_runs + 1 < MaxIngestions
    /\ i_runs' = i_runs + 1
    /\ i_pc' = IF i_pc = "done" THEN "open" ELSE "import_open"
    /\ i_todo' = <<>>
    /\ i_events_inserted' = 0
    /\ i_ret' = {}
    /\ i_main' = <<>>
    /\ UNCHANGED <<engine, probe, tester, api_key, auth_method, analysis, clients,
                   group, i_file, i_uuid, i_writes, i_said>>

NextReingest ==
    \/ NextIngest
    \/ NextImport
    \/ Again

SpecReingest == InitReingest /\ [][NextReingest]_vars

(* ------------- RateLimitTester.test_rate_limiting ---------------------- *)
\* target rates whose interval 1.0 / target_rps is a whole number of ticks
TesterRates == {r \in 1 .. MaxRate : TicksPerSec % r = 0}

\* interval = 1.0 / target_rps, in ticks
Interval(rps) == TicksPerSec \div rps

\* values of the x-ratelimit-remaining header
RemainingValues == {"5", "50", "abc"}

\* int(remaining): the value parses, or int raises ValueError
IntParses(v) == v \in {"5", "50"}

\* the HTTPHeaders of a response: without or with x-ratelimit-remaining
HeaderSets ==
    {[remaining |-> {}]} \cup {[remaining |-> {v}] : v \in RemainingValues}

\* what client.list_buckets() does: returns a response, raises a
\* ClientError with a code, or raises another exception
Outcomes ==
    {[kind |-> "ok", code |-> "", headers |-> h] : h \in HeaderSets}
    \cup {[kind |-> "ClientError", code |-> c, headers |-> [remaining |-> {}]] :
            c \in {"SlowDown", "AccessDenied"}}
    \cup {[kind |-> "Exception", code |-> "",
           headers |-> [remaining |-> {}]]}

\* the try block raises after the counter of successes was incremented
RaisesLate(o) ==
    /\ o.kind = "ok"
    /\ \E v \in o.headers.remaining : ~IntParses(v)

\* make_request: the results dict after a call with outcome o that took
\* lat ticks
MakeRequest(res, o, lat) ==
    IF o.kind = "ok"
    THEN LET counted == [res EXCEPT !.response_times = Append(@, lat),
                                    !.successful = @ + 1]
         IN IF RaisesLate(o)
            THEN [counted EXCEPT !.errors = @ + 1]
            ELSE counted
    ELSE IF o.kind = "ClientError" /\ o.code = "SlowDown"
    THEN [res EXCEPT !.rate_limited = @ + 1]
    ELSE [res EXCEPT !.errors = @ + 1]

InitTester ==
    /\ t_pc = "loop"
    /\ t_rps \in TesterRates
    /\ t_duration \in 1 .. MaxDuration
    /\ t_rps * t_duration <= MaxRequests
    /\ t_now = 0
    /\ t_end = t_duration * TicksPerSec
    /\ t_request_start = 0
    /\ t_wake_at = 0
    /\ t_results = [successful |-> 0, rate_limited |-> 0, errors |-> 0,
                    response_times |-> <<>>]
    /\ t_total = {}
    /\ t_made = 0
    /\ t_starts = <<>>
    /\ api_key = "test-premium-key"
    /\ auth_method = "v4"
    /\ EngineIdle
    /\ ProbeIdle
    /\ AnalysisIdle
    /\ ClientsIdle
    /\ GroupIdle
    /\ IngestIdle

\* while time.time() < end_time
TesterLoopCheck ==
    /\ t_pc = "loop"
    /\ t_pc' = IF t_now < t_end THEN "call" ELSE "calc"
    /\ UNCHANGED <<engine, probe, api_key, auth_method, analysis, clients,
                   group, ingest, t_rps, t_duration, t_now, t_end,
                   t_request_start, t_wake_at, t_results, t_total, t_made,
                   t_starts>>

\* request_start = time.time(); make_request() is entered and takes start
TesterCall ==
    /\ t_pc = "call"
    /\ t_request_start' = t_now
    /\ t_starts' = Append(t_starts, t_now)
    /\ t_pc' = "request"
    /\ UNCHANGED <<engine, probe, api_key, auth_method, analysis, clients,
                   group, ingest, t_rps, t_duration, t_now, t_end, t_wake_at,
                   t_results, t_total, t_made>>

\* list_buckets ends with outcome o, make_request counts it and returns;
\* the loop sleeps for what is left of the interval
TesterReturn(o) ==
    /\ t_pc = "request"
    /\ t_results' = MakeRequest(t_results, o, t_now - t_request_start)
    /\ t_made' = t_made + 1
    /\ IF t_now - t_request_start < Interval(t_rps)
       THEN /\ t_pc' = "pace"
            /\ t_wake_at' = t_request_start + Interval(t_rps)
       ELSE /\ t_pc' = "loop"
            /\ UNCHANGED t_wake_at
    /\ UNCHANGED <<engine, probe, api_key, auth_method, analysis, clients,
                   group, ingest, t_rps, t_duration, t_now, t_end,
                   t_request_start, t_total, t_starts>>

\* the pacing sleep returning at once
TesterWakeEarly ==
    /\ t_pc = "pace"
    /\ t_pc' = "loop"
    /\ UNCHANGED <<engine, probe, api_key, auth_method, analysis, clients,
                   group, ingest, t_rps, t_duration, t_now, t_end,
                   t_request_start, t_wake_at, t_results, t_total, t_made,
                   t_starts>>

\* time.sleep(interval - elapsed) returns
TesterWake ==
    /\ t_pc = "pace"
    /\ t_now >= t_wake_at
    /\ t_pc' = "loop"
    /\ UNCHANGED <<engine, probe, api_key, auth_method, analysis, clients,
                   group, ingest, t_rps, t_duration, t_now, t_end,
                   t_request_start, t_wake_at, t_results, t_total, t_made,
                   t_starts>>

\* total_requests = successful + rate_limited + errors
TesterCalc ==
    /\ t_pc = "calc"
    /\ t_total' = {t_results.successful + t_results.rate_limited
                     + t_results.errors}
    /\ t_pc' = "done"
    /\ UNCHANGED <<engine, probe, api_key, auth_method, analysis, clients,
                   group, ingest, t_rps, t_duration, t_now, t_end,
                   t_request_start, t_wake_at, t_results, t_made, t_starts>>

\* the clock of the tester; a request or a sleep runs past end_time by at
\* most GraceTicks
TesterTick ==
    /\ t_pc \in {"loop", "call", "request", "pace"}
    /\ \/ t_now < t_end + GraceTicks
       \/ t_pc = "pace" /\ t_now < t_wake_at
    /\ t_now' = t_now + 1
    /\ UNCHANGED <<engine, probe, api_key, auth_method, analysis, clients,
                   group, ingest, t_pc, t_rps, t_duration, t_end,
                   t_request_start, t_wake_at, t_results, t_total, t_made,
                   t_starts>>

NextTester ==
    \/ TesterLoopCheck
    \/ TesterCall
    \/ \E o \in Outcomes : TesterReturn(o)
    \/ TesterWake
    \/ TesterCalc
    \/ TesterTick

SpecTester == InitTester /\ [][NextTester]_vars

\* the file holds a JSON document with a summary
HasSummary == i_file.kind = "json" /\ "summary" \in DOMAIN i_file.data

\* the groups of the export's summary.ByGroup
ExportGroups ==
    IF HasSummary /\ "ByGroup" \in DOMAIN i_file.data["summary"]
    THEN DOMAIN i_file.data["summary"]["ByGroup"]
    ELSE {}

\* the inserts for group g posted so far
GroupWrites(g) ==
    {k \in WritesTo("test_results") :
        Get(i_writes[k].row, "test_group", Get(i_writes[k].row, "group", ""))
            = g}

(* ============================ properties =============================== *)

\* C1: in every summary of run_sustained_test, and for the counts
\* analyze_results takes of any results list, success + rate limited +
\* errors equals the total number of requests.
C1_CountsSumToTotal ==
    /\ \A s \in summary :
          s.success_count + s.rate_limited_count + s.error_count
              = s.total_requests
    /\ LET a == analyze_results(results)
       IN a.success_count + a.rate_limited_count + a.error_count = a.total

\* C2: every request handed to the pool yields exactly one entry of the
\* run's results list: no entry is recorded twice, each entry is the result
\* of the request it stands for, nothing is missing once a window has been
\* collected, and total_requests is the number of requests submitted.
C2_ExactlyOnce ==
    /\ Len(results) = Len(recorded)
    /\ \A i, j \in 1 .. Len(recorded) : i # j => recorded[i] # recorded[j]
    /\ \A i \in 1 .. Len(recorded) : recorded[i] \in 1 .. nsub
    /\ pc = "collect" =>
          \A k \in 1 .. ci :
              /\ recorded[Len(recorded) - ci + k] = futures[k].id
              /\ results[Len(recorded) - ci + k] = futures[k].result
    /\ pc \in {"sleep", "loop", "analyze", "done"} => Len(results) = nsub
    /\ \A s \in summary : s.total_requests = nsub

\* C2 witness: a finished run whose first window's two requests completed
\* in the opposite order of their submission.
C2_Witness ==
    /\ pc = "done"
    /\ nsub >= 2
    /\ rate >= 2
    /\ "timestamp" \in DOMAIN results[1]
    /\ results[1]["timestamp"] > results[2]["timestamp"]
    /\ \E s \in summary : s.total_requests = nsub

\* C3: a result whose HTTP status is neither 200 nor 429 is counted in the
\* error bucket of the summary.
C3_OtherStatusIsError ==
    \A s \in summary :
        s.error_count >=
            Cardinality({i \in 1 .. Len(results) :
                            /\ "status_code" \in DOMAIN results[i]
                            /\ results[i]["status_code"] \notin {200, 429}})

\* C4: the timestamps of the throttled (429) results, read in the order of
\* the results list, never decrease.
C4_ThrottleTimestampsMonotone ==
    \A i, j \in 1 .. Len(results) :
        (i < j /\ Is429(results[i]) /\ Is429(results[j]))
            => results[i]["timestamp"] <= results[j]["timestamp"]

\* C5: a probe asked for with a scheme outside {v4, v2, presigned, query_v2,
\* custom} sends no HTTP request.
C5_UnknownSchemeRejected ==
    auth_method \notin AuthMethods => p_sent = {}

\* C6: a run with a non-positive rate starts no window and produces no
\* summary.
C6_NonPositiveRateRejected ==
    rate <= 0 => (windows = 0 /\ summary = {})

\* C7: every window started enqueues exactly `rate` requests, so outside
\* the submitting loop the number of submitted requests is rate times the
\* number of windows started (and inside it, the full earlier windows plus
\* the part of this one).
C7_ExactlyRatePerWindow ==
    rate >= 0 =>
        /\ pc = "submit" =>
              /\ Len(futures) <= rate
              /\ nsub = rate * (windows - 1) + Len(futures)
        /\ pc \in {"collect", "sleep", "loop", "analyze", "done"} =>
              nsub = rate * windows
        /\ (pc \in {"collect", "sleep"}) => Len(futures) = rate

\* C7 witness: the batch of a window that follows an overrun window has
\* been submitted in full.
C7_Witness ==
    /\ pc = "collect"
    /\ windows >= 2
    /\ overran
    /\ rate >= 1
    /\ Len(futures) = rate

\* C8: a window starts only when every request of the earlier windows has
\* completed and been collected and, after the first, at least one second
\* after the previous window began; the loop sleeps exactly to the end of
\* the second when the window took less, and not at all when it took one
\* second or more.
C8_WindowPacing ==
    [][ /\ (pc = "loop" /\ pc' = "submit") =>
              /\ inflight = 0
              /\ Len(results) = nsub
              /\ (windows >= 1 => now - batch_start >= TicksPerSec)
        /\ (pc = "collect" /\ pc' = "sleep") =>
              /\ now - batch_start < TicksPerSec
              /\ wake_at' = batch_start + TicksPerSec
        /\ (pc = "collect" /\ pc' = "loop") => now - batch_start >= TicksPerSec
        /\ (pc = "sleep" /\ pc' = "loop") => now >= batch_start + TicksPerSec
        /\ nsub' > nsub => (inflight <= Len(futures) /\ pc = "submit")
      ]_vars

\* C8 witness: a request of the next window is submitted right after a
\* window that took a second or more, and nothing of the earlier window is
\* outstanding.
C8_Witness ==
    /\ pc = "submit"
    /\ windows >= 2
    /\ overran
    /\ Len(futures) >= 1
    /\ now = batch_start
    /\ inflight <= Len(futures)

\* C9: no request begins after the run's duration has elapsed.
C9_NoRequestAfterDeadline ==
    late = 0

\* C10: against an always-200, zero-latency endpoint (and an exact pacing
\* sleep) a run with positive rate R and duration D never submits more than
\* R*D requests and returns total_requests = R*D, all counted as success,
\* none as throttled or error.
C10_RateAdherence ==
    (ideal /\ rate >= 1) =>
        /\ nsub <= rate * duration
        /\ \A s \in summary :
              /\ s.total_requests = rate * duration
              /\ s.success_count = s.total_requests
              /\ s.rate_limited_count = 0
              /\ s.error_count = 0

\* C10 witness: an ideal run of more than one request has returned.
C10_Witness ==
    /\ ideal
    /\ rate >= 1
    /\ rate * duration >= 2
    /\ \E s \in summary : s.success_count = rate * duration

\* C17: the detected group is resolved from a response's rate-limit-group
\* header whatever the letter case of the header name: a results list holding
\* a result with such a header (a non-empty value) has a detected group.
C17_GroupHeaderAnyCase ==
    \A s \in a_summary :
        (\E i \in 1 .. Len(a_results) :
            /\ "rate_info" \in DOMAIN a_results[i]
            /\ \E h \in DOMAIN a_results[i]["rate_info"] :
                  /\ Lower(h) = "x-ratelimit-group"
                  /\ a_results[i]["rate_info"][h] # "")
            => s.detected_group # "None"

\* C18: the detected group is the header value of the first status-200
\* result that carries the header, and is absent when no status-200 result
\* carries it; a throttled or other result never determines it.
C18_GroupFromFirstSuccess ==
    \A s \in a_summary :
        LET succ == {i \in 1 .. Len(a_results) :
                        StatusIs(a_results[i], 200) /\ HasGroup(a_results[i])}
        IN IF succ = {} THEN s.detected_group = "None"
           ELSE \E i \in succ :
                   /\ \A j \in succ : i <= j
                   /\ s.detected_group =
                          a_results[i]["rate_info"]["X-RateLimit-Group"]

\* C19: the request sent for a header-based scheme (v4, v2, custom) carries
\* its credential in the headers and has no query parameter; the request
\* sent for a query-based scheme (presigned, query_v2) carries its credential
\* in the query parameters and none of the credential headers.
C19_CredentialPlacement ==
    \A req \in p_sent :
        /\ auth_method \in {"v4", "v2"} =>
              /\ "Authorization" \in DOMAIN req.headers
              /\ DOMAIN req.params = {}
        /\ auth_method = "custom" =>
              /\ "X-API-Key" \in DOMAIN req.headers
              /\ DOMAIN req.params = {}
        /\ auth_method = "presigned" =>
              /\ "X-Amz-Credential" \in DOMAIN req.params
              /\ DOMAIN req.headers
                     \cap {"Authorization", "X-Amz-Date", "X-API-Key"} = {}
        /\ auth_method = "query_v2" =>
              /\ "AWSAccessKeyId" \in DOMAIN req.params
              /\ DOMAIN req.headers
                     \cap {"Authorization", "X-Amz-Date", "X-API-Key"} = {}

\* C19 witness: a presigned request has been sent, and it was answered.
C19_Witness ==
    /\ auth_method = "presigned"
    /\ p_pc = "returned"
    /\ \E req \in p_sent : "X-Amz-Signature" \in DOMAIN req.params

\* C11: a transport failure never aborts the run: the main thread leaves
\* the window loop only once the duration has elapsed, every failure is
\* one error-bucket result of the summary, and when every request failed
\* the summary has error_count = total_requests and no success or throttle.
C11_FailureNeverAborts ==
    /\ pc \in {"analyze", "done"} => now >= Deadline
    /\ pc \in {"sleep", "loop", "analyze", "done"} =>
          Cardinality({i \in 1 .. Len(results) : "error" \in DOMAIN results[i]})
              = nfail
    /\ \A s \in summary :
          /\ s.error_count = nfail
          /\ nfail = nsub =>
                /\ s.error_count = s.total_requests
                /\ s.success_count = 0
                /\ s.rate_limited_count = 0

\* C11 witness: a run of two windows in which every request failed has
\* returned its summary.
C11_Witness ==
    /\ pc = "done"
    /\ windows >= 2
    /\ nsub >= 2
    /\ nfail = nsub
    /\ \E s \in summary : s.error_count = nsub

C15_InFlightAreCounted ==
    /\ pc \in {"analyze", "done"} =>
          /\ inflight = 0
          /\ \A k \in 1 .. Len(futures) : futures[k].state = "done"
          /\ Len(results) = nsub
    /\ \A s \in summary :
          s.success_count + s.rate_limited_count
              + Cardinality({i \in 1 .. Len(s.results) :
                                ~StatusIs(s.results[i], 200)
                                /\ ~StatusIs(s.results[i], 429)}) = nsub

\* C15 witness: the summary counts a request that began before the deadline
\* and was answered after it.
C15_Witness ==
    /\ late = 0
    /\ \E s \in summary :
          /\ s.total_requests = nsub
          /\ \E i \in 1 .. Len(results) :
                /\ results[i]["timestamp"] > Deadline
                /\ StatusIs(results[i], 200)

\* C16: once the grace period after the deadline has passed,
\* the run has been finalized even if requests are still open.
C16_FinalizedAfterGrace ==
    (now >= Deadline + GraceTicks /\ inflight > 0) => pc \in {"analyze", "done"}

\* C14: only the main (aggregating) thread of test_concurrent_clients
\* writes to the shared results list; client threads never append to it.
C14_OnlyAggregatorWrites ==
    \A k \in 1 .. Len(c_writers) : c_writers[k] = MainThread

\* C12: two runs under way at once share no state: every result in a
\* run's list and summary carries that run's own api_key and auth_method,
\* and the summary a run returns, and the one filed for its key, is the
\* summary the run reports alone for the same answers.
C12_RunsAreIndependent ==
    /\ \A r \in 1 .. NumRuns :
          /\ \A i \in 1 .. Len(g_results[r]) :
                /\ g_results[r][i]["api_key"] = PairKeys[r]
                /\ g_results[r][i]["auth_method"] = "v4"
          /\ \A s \in g_run[r].summary :
                /\ s = Alone(r)
                /\ \A i \in 1 .. Len(s.results) :
                      s.results[i]["api_key"] = PairKeys[r]
    /\ \A e \in g_report :
          \E r \in 1 .. NumRuns :
              /\ e.api_key = PairKeys[r]
              /\ e.results = Alone(r)

\* C12 witness: both runs were under way together, got different answers
\* and have been filed with different counts.
C12_Witness ==
    /\ g_collected = NumRuns
    /\ \E e1, e2 \in g_report :
          /\ e1.api_key = PairKeys[1]
          /\ e2.api_key = PairKeys[2]
          /\ e1.results.success_count >= 1
          /\ e1.results.rate_limited_count = 0
          /\ e2.results.rate_limited_count >= 1
          /\ e2.results.error_count >= 1

\* C20: after the ingestion of an export of the documented shape, with
\* the throttle events listed under summary.ByGroup[group].RateLimitAnalysis,
\* the number of inserts into throttle_events equals the number of
\* throttle events in the export.
C20_OneRowPerThrottleEvent ==
    (/\ i_pc = "done"
     /\ i_file.kind = "json"
     /\ "summary" \in DOMAIN i_file.data
     /\ "ByGroup" \in DOMAIN i_file.data["summary"]
     /\ "RateLimitAnalysis" \notin DOMAIN i_file.data["summary"])
        => Cardinality(WritesTo("throttle_events"))
              = EventsUnder(i_file.data["summary"]["ByGroup"],
                            Items(i_file.data["summary"]["ByGroup"]))

\* C21: when an ingestion of an export with a summary has ended and the
\* store accepted every write, exactly one insert into test_summary and,
\* for each group of summary.ByGroup, exactly one insert into test_results
\* have been posted.
C21_OneInsertPerRecord ==
    (/\ Ended
     /\ HasSummary
     /\ \A k \in 1 .. Len(i_writes) : i_writes[k].status = 200)
        => /\ Cardinality(WritesTo("test_summary")) = 1
           /\ Cardinality(WritesTo("test_results")) = Cardinality(ExportGroups)
           /\ \A g \in ExportGroups : Cardinality(GroupWrites(g)) = 1

\* C22: when an ingestion has ended, the write of every group's record has
\* been attempted, whatever the store answered to the earlier writes.
C22_LaterWritesAttempted ==
    Ended => \A g \in ExportGroups : GroupWrites(g) # {}

\* C23: ingesting the same file again is never deduplicated: when the k-th
\* ingestion has ended and the store accepted every write, each group has
\* k rows in test_results, equal but for their test_id, the test_ids of all
\* rows differ, and the ingester has written k test_summary rows and k rows
\* for every throttle event it reads.
C23_NeverDeduplicated ==
    (Ended /\ \A k \in 1 .. Len(i_writes) : i_writes[k].status = 200)
        => /\ \A g \in ExportGroups :
                 /\ Cardinality(GroupWrites(g)) = i_runs + 1
                 /\ \A j, k \in GroupWrites(g) :
                       [i_writes[j].row EXCEPT !.test_id = 0]
                           = [i_writes[k].row EXCEPT !.test_id = 0]
           /\ \A j, k \in WritesTo("test_results") :
                 i_writes[j].row.test_id = i_writes[k].row.test_id => j = k
           /\ (i_pc = "done" /\ HasSummary) =>
                 /\ Cardinality(WritesTo("test_summary")) = i_runs + 1
                 /\ Cardinality(WritesTo("throttle_events"))
                       = (i_runs + 1) * Len(EventSource(i_file.data["summary"]))

\* C23 witness: the second ingestion of an export with a group and a
\* throttle event has ended with every write accepted.
C23_Witness ==
    /\ i_pc = "done"
    /\ i_runs >= 1
    /\ ExportGroups # {}
    /\ \A k \in 1 .. Len(i_writes) : i_writes[k].status = 200
    /\ Cardinality(WritesTo("test_results")) >= 2
    /\ Cardinality(WritesTo("throttle_events")) >= 2

\* C24: once the ingester has walked through the groups, every group of
\* the export has exactly one test_results insert, also a group without
\* RateLimitAnalysis or without some of its fields; the columns
\* effective_limit, observed_bursts and success_rate hold the field's value
\* where the export has it and zero where it has not.
C24_MissingAnalysisStoredAsZero ==
    (i_pc \in {"events", "done"} /\ HasSummary) =>
        \A g \in ExportGroups :
            /\ Cardinality(GroupWrites(g)) = 1
            /\ \A k \in GroupWrites(g) :
                  LET gd == i_file.data["summary"]["ByGroup"][g]
                      has(f) == /\ "RateLimitAnalysis" \in DOMAIN gd
                                /\ f \in DOMAIN gd["RateLimitAnalysis"]
                      val(f) == IF has(f) THEN gd["RateLimitAnalysis"][f] ELSE 0
                  IN /\ i_writes[k].row.effective_limit = val("EffectiveLimit")
                     /\ i_writes[k].row.observed_bursts = val("ObservedBursts")
                     /\ i_writes[k].row.success_rate = val("SuccessRate")

\* C24 witness: the first group has no RateLimitAnalysis, the second has a
\* whole one; both rows were posted, the first with zeros.
C24_Witness ==
    /\ i_pc = "done"
    /\ HasSummary
    /\ ExportGroups = {"premium", "basic"}
    /\ "RateLimitAnalysis" \notin DOMAIN i_file.data["summary"]["ByGroup"]["premium"]
    /\ \E j \in GroupWrites("premium"), k \in GroupWrites("basic") :
          /\ j < k
          /\ i_writes[j].row.effective_limit = 0
          /\ i_writes[j].row.success_rate = 0
          /\ i_writes[k].row.effective_limit = 5
          /\ i_writes[k].row.success_rate = 50

\* C25: the payload of every row the ingester posts holds the whole export
\* object: raw_data the group's object, summary_data the summary and
\* event_data the event, every key and value included.
C25_NoFieldLost ==
    \A k \in 1 .. Len(i_writes) :
        LET w == i_writes[k]
        IN /\ w.table = "test_results" =>
                 w.row.raw_data =
                     <<"json", i_file.data["summary"]["ByGroup"][w.row.test_group]>>
           /\ w.table = "test_summary" =>
                 w.row.summary_data = <<"json", i_file.data["summary"]>>
           /\ w.table = "throttle_events" =>
                 /\ w.row.event_data[1] = "json"
                 /\ \E it \in {EventSource(i_file.data["summary"])[j] :
                                 j \in 1 .. Len(EventSource(i_file.data["summary"]))} :
                       w.row.event_data[2] = it.event

\* C26: when ingest_throttle_events has returned, every event it walked
\* through has its insert, in order; an absent RemainingReqs or ResetIn is
\* stored as zero, a present one as it is, and the events after an event
\* without hints have their inserts too.
C26_AbsentHintIsZero ==
    (i_pc = "done" /\ HasSummary) =>
        LET evs == EventSource(i_file.data["summary"])
            ws == SelectSeq(i_writes, LAMBDA w : w.table = "throttle_events")
        IN /\ Len(ws) = Len(evs)
           /\ \A j \in 1 .. Len(evs) :
                 /\ ws[j].row.timestamp = evs[j].event["Timestamp"]
                 /\ ws[j].row.remaining_requests =
                       (IF "RemainingReqs" \in DOMAIN evs[j].event
                        THEN evs[j].event["RemainingReqs"] ELSE 0)
                 /\ ws[j].row.reset_in_seconds =
                       (IF "ResetIn" \in DOMAIN evs[j].event
                        THEN evs[j].event["ResetIn"] ELSE 0)

\* C26 witness: an event without hints, then one with hints; both have
\* their insert, the first with zeros.
C26_Witness ==
    /\ i_pc = "done"
    /\ HasSummary
    /\ LET ws == SelectSeq(i_writes, LAMBDA w : w.table = "throttle_events")
       IN /\ Len(ws) = 2
          /\ ws[1].row.remaining_requests = 0
          /\ ws[1].row.reset_in_seconds = 0
          /\ ws[1].row.event_data = <<"json", BareEvent>>
          /\ ws[2].row.remaining_requests = 3
          /\ ws[2].row.reset_in_seconds = 7

\* C27: at every moment at most max_workers requests are being executed;
\* the requests of a window beyond that wait in the queue, in order, and
\* the window is left only when every request of it has been executed.
C27_PoolBoundsConcurrency ==
    /\ Cardinality(Running) <= max_workers
    /\ \A j \in Queued, k \in 1 .. Len(futures) :
          futures[k].state \in {"running", "done"} => k < j
    /\ pc \in {"sleep", "loop", "analyze", "done"} =>
          \A k \in 1 .. Len(futures) : futures[k].state = "done"

\* C27 witness: the rate exceeds the pool: the pool is full and a request
\* of the window waits in the queue.
C27_Witness ==
    /\ rate > max_workers
    /\ Cardinality(Running) = max_workers
    /\ Queued # {}
    /\ pc = "collect"

\* C29: the results are recorded in dispatch order: the i-th entry of the
\* results list is the result of the i-th request submitted, so the entries
\* of a window follow its submission order and precede those of the next
\* window.
C29_DispatchOrder ==
    /\ \A i \in 1 .. Len(recorded) : recorded[i] = i
    /\ \A i, j \in 1 .. Len(recorded) :
          (i < j /\ rate > 0) =>
              (recorded[i] - 1) \div rate <= (recorded[j] - 1) \div rate
    /\ pc = "collect" =>
          \A k \in 1 .. ci : results[Len(results) - ci + k] = futures[k].result

\* C29 witness: in a window the second request completed before the first,
\* and the first is recorded first.
C29_Witness ==
    /\ Len(recorded) >= 2
    /\ recorded[1] = 1
    /\ recorded[2] = 2
    /\ pc = "collect"
    /\ ci = 2
    /\ futures[1].result["timestamp"] > futures[2].result["timestamp"]

\* C28: when every request ends, a run eventually returns its summary: it
\* cannot wait forever for a request or in the pacing sleep.
C28_RunTerminates == <>(pc = "done" /\ summary # {})

\* C28 witness: a run with a positive rate and two windows has slept
\* between them, waited for a request past the deadline and returned.
C28_Witness ==
    /\ pc = "done"
    /\ summary # {}
    /\ rate > 0
    /\ windows >= 2
    /\ \E i \in 1 .. Len(results) : results[i]["timestamp"] > Deadline

\* C30: every call of make_request increments exactly one of successful,
\* rate_limited and errors, so their sum is the number of requests made
C30_OneCounterPerRequest ==
    t_results.successful + t_results.rate_limited + t_results.errors = t_made

\* C31 (as stated): test_rate_limiting sends one request at a time, with
\* consecutive starts at least 1/target_rps apart, at most
\* target_rps * duration_seconds requests, and no request starts at or
\* after the end time
C31_NoStartAtOrAfterEnd ==
    /\ Len(t_starts) - t_made \in {0, 1}
    /\ \A i \in 1 .. Len(t_starts) - 1 :
           t_starts[i + 1] >= t_starts[i] + Interval(t_rps)
    /\ Len(t_starts) <= t_rps * t_duration
    /\ \A i \in 1 .. Len(t_starts) : t_starts[i] < t_end

\* C31 (amended): one request at a time, consecutive starts at least
\* 1/target_rps apart, at most target_rps * duration_seconds requests, and
\* every request but the last starts more than an interval before the end
\* time; the last starts after a loop check that saw the end time ahead
C31_PacedOneAtATime ==
    /\ Len(t_starts) - t_made \in {0, 1}
    /\ \A i \in 1 .. Len(t_starts) - 1 :
           /\ t_starts[i + 1] >= t_starts[i] + Interval(t_rps)
           /\ t_starts[i] + Interval(t_rps) < t_end
    /\ Len(t_starts) <= t_rps * t_duration

C31_Witness ==
    /\ t_pc = "done"
    /\ Len(t_starts) >= 2
    /\ Len(t_starts) = t_rps * t_duration
    /\ t_made = Len(t_starts)

\* C32: once every client thread of test_concurrent_clients is joined, the
\* shared list holds exactly one entry per client, with that client's
\* counters; the totals are the sums of the clients' counters; and the
\* totals are computed only after the last client has finished
C32_NoClientLostOrDuplicated ==
    (c_pc \in {"join", "done", "raised"} /\ c_joined = c_num) =>
        /\ \A i \in 1 .. c_num : c_clients[i].pc = "finished"
        /\ Len(c_results) = c_num
        /\ \A i \in 1 .. c_num :
               \E k \in 1 .. Len(c_results) :
                   /\ c_results[k][1] = i
                   /\ \A f \in {"successful", "rate_limited", "errors"} :
                          c_results[k][2][f] = c_clients[i][f]
        /\ \A t \in c_totals :
               t = Totals([i \in 1 .. c_num |->
                              <<i, [f \in {"successful", "rate_limited",
                                           "errors"} |-> c_clients[i][f]]>>])

C32_Witness ==
    /\ c_totals # {}
    /\ c_num >= 2
    /\ c_results[1][1] = 2
    /\ c_clients[1].successful > 0
    /\ c_clients[2].rate_limited > 0

\* C33: the ingester reports or counts a record as inserted only if the
\* store answered its write with status 200: events_inserted is the number
\* of accepted throttle-event writes of the ingestion, and no failed summary
\* or group write is reported as inserted
C33_InsertedMeansAccepted ==
    /\ \A k \in 1 .. Len(i_said) :
           ("inserted" \in DOMAIN i_said[k] /\ i_said[k].inserted) =>
               i_writes[i_said[k].about].status = 200
    /\ i_pc = "done" /\ i_ret = {TRUE} /\ HasSummary =>
           i_events_inserted =
               Cardinality({k \in 1 .. Len(i_writes) :
                               /\ i_writes[k].table = "throttle_events"
                               /\ i_writes[k].run = i_runs
                               /\ i_writes[k].status = 200})

\* C34: when the export file is missing or is not valid JSON, the ingestion
\* returns failure and posts no insert, and the tool then creates no views
\* and verifies nothing; views are created, and the verification is run,
\* only after an ingestion that returned success
C34_NothingAfterFailure ==
    /\ i_file.kind \in {"missing", "invalid"} =>
           /\ i_writes = <<>>
           /\ Ended => i_ret = {FALSE}
           /\ i_main \in {<<>>, <<"failed">>}
    /\ (\E k \in 1 .. Len(i_main) : i_main[k] \in {"views", "verify"}) =>
           Ended /\ i_ret = {TRUE}

C34_Witness ==
    /\ i_file.kind = "invalid"
    /\ i_runs >= 1
    /\ i_pc = "done"
    /\ i_main = <<"failed">>

====
